---------------------------- MODULE Spec2Model ----------------------------
(***************************************************************************)
(* ProtoBuf.DotProto.Parser: the recursive-descent parser of .proto text.  *)
(*                                                                         *)
(* The parser is modelled as a pushdown machine.  A step is one call of    *)
(* the tokenizer (next(), or peek() followed by the conditional next())    *)
(* and the parser code that runs up to the following tokenizer call.  The  *)
(* call stack of the JavaScript functions is the variable `stack`; every   *)
(* frame holds the locals of one activation.  A token is the sequence of   *)
(* its characters, so that the regular expressions of Lang, the numeric    *)
(* conversions and toLowerCase() are computed, not assumed.                *)
(***************************************************************************)
EXTENDS Integers, Sequences, FiniteSets, TLC

(***************************************************************************)
(* Characters and strings                                                  *)
(***************************************************************************)
LowerSeq ==
  <<"a","b","c","d","e","f","g","h","i","j","k","l","m",
    "n","o","p","q","r","s","t","u","v","w","x","y","z">>

UpperSeq ==
  <<"A","B","C","D","E","F","G","H","I","J","K","L","M",
    "N","O","P","Q","R","S","T","U","V","W","X","Y","Z">>

HexSeq ==
  <<"0","1","2","3","4","5","6","7","8","9","a","b","c","d","e","f">>

Range(q) == {q[i] : i \in DOMAIN q}

Lower == Range(LowerSeq)
Upper == Range(UpperSeq)
Letter == Lower \cup Upper
Digit == {HexSeq[i] : i \in 1..10}
OctDigit == {HexSeq[i] : i \in 1..8}
HexDigit == Range(HexSeq) \cup {"A","B","C","D","E","F"}

IndexOf(q, c) == CHOOSE i \in DOMAIN q : q[i] = c

\* String.prototype.toLowerCase on one character
ToLowerChar(c) == IF c \in Upper THEN LowerSeq[IndexOf(UpperSeq, c)] ELSE c

\* String.prototype.toLowerCase
ToLowerCase(str) == [i \in DOMAIN str |-> ToLowerChar(str[i])]

\* the value of a digit character in parseInt
DigitVal(c) == IndexOf(HexSeq, ToLowerChar(c)) - 1

\* JavaScript null: what next() and peek() return at the end of the input.
\* No token is the empty string, so the empty sequence stands for null.
NULL == << >>

\* ToString(v) as applied by RegExp.prototype.test and by string
\* concatenation: null becomes the text "null"
StrOf(v) == IF v = NULL THEN <<"n","u","l","l">> ELSE v

\* String.prototype.substring(k): the characters after the first k
Substring(str, k) == SubSeq(str, k + 1, Len(str))

\* whether str holds sub as a contiguous part
Contains(str, sub) ==
  \E i \in 0..(Len(str) - Len(sub)) : SubSeq(str, i + 1, i + Len(sub)) = sub

(***************************************************************************)
(* Lang: the structural tokens and the token classes                       *)
(***************************************************************************)
OPEN == <<"{">>
CLOSE == <<"}">>
OPTOPEN == <<"[">>
OPTCLOSE == <<"]">>
OPTEND == <<",">>
EQUAL == <<"=">>
END == <<";">>
STRINGOPEN == <<"\"">>
STRINGOPEN_SQ == <<"'">>
COPTOPEN == <<"(">>
COPTCLOSE == <<")">>

kw_package == <<"p","a","c","k","a","g","e">>
kw_import == <<"i","m","p","o","r","t">>
kw_message == <<"m","e","s","s","a","g","e">>
kw_enum == <<"e","n","u","m">>
kw_option == <<"o","p","t","i","o","n">>
kw_service == <<"s","e","r","v","i","c","e">>
kw_extend == <<"e","x","t","e","n","d">>
kw_syntax == <<"s","y","n","t","a","x">>
kw_public == <<"p","u","b","l","i","c">>
kw_rpc == <<"r","p","c">>
kw_returns == <<"r","e","t","u","r","n","s">>
kw_group == <<"g","r","o","u","p">>
kw_extensions == <<"e","x","t","e","n","s","i","o","n","s">>
kw_to == <<"t","o">>
kw_min == <<"m","i","n">>
kw_max == <<"m","a","x">>
kw_true == <<"t","r","u","e">>
kw_false == <<"f","a","l","s","e">>
kw_required == <<"r","e","q","u","i","r","e","d">>
kw_optional == <<"o","p","t","i","o","n","a","l">>
kw_repeated == <<"r","e","p","e","a","t","e","d">>

ScalarTypes ==
  { <<"d","o","u","b","l","e">>, <<"f","l","o","a","t">>,
    <<"i","n","t","3","2">>, <<"u","i","n","t","3","2">>,
    <<"s","i","n","t","3","2">>, <<"i","n","t","6","4">>,
    <<"u","i","n","t","6","4">>, <<"s","i","n","t","6","4">>,
    <<"f","i","x","e","d","3","2">>, <<"s","f","i","x","e","d","3","2">>,
    <<"f","i","x","e","d","6","4">>, <<"s","f","i","x","e","d","6","4">>,
    <<"b","o","o","l">>, <<"s","t","r","i","n","g">>,
    <<"b","y","t","e","s">> }

NameStart == Letter \cup {"_"}
NameChar == Letter \cup Digit \cup {"_"}

\* Lang.RULE  /^(?:required|optional|repeated)$/
RULE(str) == str \in {kw_required, kw_optional, kw_repeated}

\* Lang.TYPE  /^(?:double|float|int32|...|bytes)$/
TYPE(str) == str \in ScalarTypes

\* Lang.NAME  /^[a-zA-Z_][a-zA-Z_0-9]*$/
NAME(str) ==
  /\ Len(str) >= 1
  /\ str[1] \in NameStart
  /\ \A i \in 2..Len(str) : str[i] \in NameChar

\* Lang.TYPEREF  /^(?:\.?[a-zA-Z_][a-zA-Z_0-9]*)+$/
TYPEREF(str) ==
  /\ Len(str) >= 1
  /\ \A i \in 1..Len(str) :
       \/ /\ str[i] = "."
          /\ i < Len(str)
          /\ str[i + 1] \in NameStart
       \/ str[i] \in NameStart
       \/ str[i] \in Digit /\ i > 1 /\ str[i - 1] # "."

\* Lang.FQTYPEREF  /^(?:\.[a-zA-Z][a-zA-Z_0-9]*)+$/
FQTYPEREF(str) ==
  /\ Len(str) >= 2
  /\ str[1] = "."
  /\ \A i \in 1..Len(str) :
       \/ /\ str[i] = "."
          /\ i < Len(str)
          /\ str[i + 1] \in Letter
       \/ str[i] \in Letter
       \/ str[i] \in (Digit \cup {"_"}) /\ i > 1 /\ str[i - 1] # "."

\* Lang.NUMBER_DEC  /^(?:[1-9][0-9]*|0)$/
NUMBER_DEC(str) ==
  /\ Len(str) >= 1
  /\ \A i \in 1..Len(str) : str[i] \in Digit
  /\ str[1] = "0" => Len(str) = 1

\* Lang.NUMBER_HEX  /^0x[0-9a-fA-F]+$/
NUMBER_HEX(str) ==
  /\ Len(str) >= 3
  /\ str[1] = "0"
  /\ str[2] = "x"
  /\ \A i \in 3..Len(str) : str[i] \in HexDigit

\* Lang.NUMBER_OCT  /^0[0-7]+$/
NUMBER_OCT(str) ==
  /\ Len(str) >= 2
  /\ str[1] = "0"
  /\ \A i \in 2..Len(str) : str[i] \in OctDigit

\* the places of the decimal point and of the exponent mark in str (0: none)
PointAt(str) ==
  IF \E i \in DOMAIN str : str[i] = "."
  THEN CHOOSE i \in DOMAIN str : str[i] = "." /\ \A j \in 1..(i - 1) : str[j] # "."
  ELSE 0

ExpAt(str) ==
  IF \E i \in DOMAIN str : str[i] \in {"e", "E"}
  THEN CHOOSE i \in DOMAIN str :
         str[i] \in {"e", "E"} /\ \A j \in 1..(i - 1) : str[j] \notin {"e", "E"}
  ELSE 0

\* Lang.NUMBER_FLT  /^[0-9]*\.[0-9]+([Ee][+-]?[0-9]+)?$/
NUMBER_FLT(str) ==
  LET p == PointAt(str)
      e == ExpAt(str)
      mEnd == IF e = 0 THEN Len(str) ELSE e - 1
      dFrom == IF e # 0 /\ e < Len(str) /\ str[e + 1] \in {"+", "-"}
               THEN e + 2 ELSE e + 1
  IN /\ p >= 1
     /\ \A i \in 1..(p - 1) : str[i] \in Digit
     /\ mEnd >= p + 1
     /\ \A i \in (p + 1)..mEnd : str[i] \in Digit
     /\ e # 0 => /\ dFrom <= Len(str)
                 /\ \A i \in dFrom..Len(str) : str[i] \in Digit

\* Lang.NUMBER  /^-?(?:[1-9][0-9]*|0|0x[0-9a-fA-F]+|0[0-7]+|([0-9]*\.[0-9]+([Ee][+-]?[0-9]+)?))$/
NUMBER(str) ==
  LET u == IF Len(str) >= 1 /\ str[1] = "-" THEN Substring(str, 1) ELSE str
  IN NUMBER_DEC(u) \/ NUMBER_HEX(u) \/ NUMBER_OCT(u) \/ NUMBER_FLT(u)

\* Lang.BOOL  /^(?:true|false)$/i
BOOL(str) == ToLowerCase(str) \in {kw_true, kw_false}


(***************************************************************************)
(* Numbers.  A JavaScript number that is a non-negative integer is kept as *)
(* the little-endian sequence of its base-65536 digits (no leading zero    *)
(* digit; zero is the empty sequence), so that literals beyond 2^31 are    *)
(* computed exactly before the conversions of the code are applied.        *)
(***************************************************************************)
LimbBase == 256 * 256

RECURSIVE MulAdd(_, _, _)
\* x * m + c
MulAdd(x, m, c) ==
  IF x = << >>
  THEN IF c = 0 THEN << >> ELSE <<c>>
  ELSE LET v == Head(x) * m + c
       IN <<v % LimbBase>> \o MulAdd(Tail(x), m, v \div LimbBase)

RECURSIVE ParseDigits(_, _, _)
\* the mathematical integer written by the digits str in the given radix,
\* continuing from acc
ParseDigits(str, radix, acc) ==
  IF str = << >>
  THEN acc
  ELSE ParseDigits(Tail(str), radix, MulAdd(acc, radix, DigitVal(Head(str))))

RECURSIVE BitsOfLimb(_, _)
\* the k low bits of n, lowest first
BitsOfLimb(n, k) ==
  IF k = 0 THEN << >> ELSE <<n % 2>> \o BitsOfLimb(n \div 2, k - 1)

RECURSIVE BitsOf(_)
\* the bits of a number (16 per digit), lowest first
BitsOf(x) ==
  IF x = << >> THEN << >> ELSE BitsOfLimb(Head(x), 16) \o BitsOf(Tail(x))

\* the position of the highest set bit (0 for zero)
BitLen(b) ==
  IF \E i \in DOMAIN b : b[i] = 1
  THEN CHOOSE i \in DOMAIN b : b[i] = 1 /\ \A j \in (i + 1)..Len(b) : b[j] = 0
  ELSE 0

RECURSIVE AddBitAt(_, _)
\* b + 2^(k-1)
AddBitAt(b, k) ==
  IF k > Len(b) THEN b \o [i \in 1..(k - Len(b)) |-> IF i = k - Len(b) THEN 1 ELSE 0]
  ELSE IF b[k] = 0 THEN [b EXCEPT ![k] = 1]
  ELSE AddBitAt([b EXCEPT ![k] = 0], k + 1)

\* The Number value of a mathematical integer: IEEE 754 double precision
\* keeps 53 significant bits and rounds to nearest, ties to even.
MantissaBits == 53

ToDouble(b) ==
  LET s == BitLen(b) - MantissaBits
  IN IF s <= 0 THEN b
     ELSE LET cleared == [i \in DOMAIN b |-> IF i <= s THEN 0 ELSE b[i]]
              half == b[s] = 1
              low == \E i \in 1..(s - 1) : b[i] = 1
              odd == b[s + 1] = 1
          IN IF half /\ (low \/ odd) THEN AddBitAt(cleared, s + 1) ELSE cleared

RECURSIVE BitsValue(_, _, _)
\* the value of bits from..to of b
BitsValue(b, from, to) ==
  IF from > to \/ from > Len(b) THEN 0
  ELSE b[from] + 2 * BitsValue(b, from + 1, to)

\* ToInt32 of a number of magnitude b (bits) and the given sign: the operand
\* modulo 2^32, read as a two's-complement 32-bit integer
ToInt32(negative, b) ==
  LET low31 == BitsValue(b, 1, 31)
      top == Len(b) >= 32 /\ b[32] = 1
      \* the low 32 bits of the magnitude, read as signed
      sm == IF top THEN (low31 - 2147483647) - 1 ELSE low31
  IN IF ~negative THEN sm
     ELSE IF top /\ low31 = 0 THEN sm
     ELSE 0 - sm

\* parseInt(str, radix) for a str of digits of that radix: the integer
\* written, as a Number
ParseInt(str, radix) ==
  LET b == ToDouble(BitsOf(ParseDigits(str, radix, << >>)))
  IN SubSeq(b, 1, BitLen(b))

\* the outcome of _parseId: the id, or the Error / TypeError thrown
IdNegativeIllegal(neg, id) == ~neg /\ id < 0

ParseId(val, neg) ==
  IF val = NULL
  THEN [ok |-> FALSE, kind |-> "TypeError"]           \* val.charAt of null
  ELSE
    LET negative == val[1] = "-"
        u == IF negative THEN Substring(val, 1) ELSE val
        mag == IF NUMBER_DEC(u) THEN ParseInt(u, 10)
               ELSE IF NUMBER_HEX(u) THEN ParseInt(Substring(u, 2), 16)
               ELSE ParseInt(Substring(u, 1), 8)
        id == ToInt32(negative, mag)
    IN IF ~(NUMBER_DEC(u) \/ NUMBER_HEX(u) \/ NUMBER_OCT(u))
       THEN [ok |-> FALSE, kind |-> "Error"]
       ELSE IF IdNegativeIllegal(neg, id)
       THEN [ok |-> FALSE, kind |-> "Error"]
       ELSE [ok |-> TRUE, id |-> id]

RECURSIVE SmallInt(_, _)
\* the value of a short run of decimal digits, continuing from acc
SmallInt(str, acc) ==
  IF str = << >> THEN acc ELSE SmallInt(Tail(str), 10 * acc + DigitVal(Head(str)))

RECURSIVE Gcd(_, _)
Gcd(a, b) == IF b = 0 THEN a ELSE Gcd(b, a % b)

Zeros(k) == [i \in 1..k |-> "0"]

\* A JavaScript number: (-1)^neg * (int + fnum / fden), with int the bits of
\* the integer part and fnum / fden the fraction in lowest terms.
IntNum(negative, b) == [neg |-> negative, int |-> b, fnum |-> 0, fden |-> 1]

\* parseFloat(str) for a str matching Lang.NUMBER_FLT.  The decimal point is
\* moved by the exponent; the fraction is kept exactly.
ParseFloat(str) ==
  LET p == PointAt(str)
      e == ExpAt(str)
      mEnd == IF e = 0 THEN Len(str) ELSE e - 1
      expNeg == e # 0 /\ str[e + 1] = "-"
      expFrom == IF e # 0 /\ str[e + 1] \in {"+", "-"} THEN e + 2 ELSE e + 1
      expAbs == IF e = 0 THEN 0 ELSE SmallInt(SubSeq(str, expFrom, Len(str)), 0)
      exp == IF expNeg THEN 0 - expAbs ELSE expAbs
      digits == SubSeq(str, 1, p - 1) \o SubSeq(str, p + 1, mEnd)
      scale == (mEnd - p) - exp
      padded == IF scale > Len(digits) THEN Zeros(scale - Len(digits)) \o digits
                ELSE digits
      intDigits == IF scale <= 0 THEN digits \o Zeros(0 - scale)
                   ELSE SubSeq(padded, 1, Len(padded) - scale)
      frac == IF scale <= 0 THEN 0
              ELSE SmallInt(SubSeq(padded, Len(padded) - scale + 1, Len(padded)), 0)
      den == IF scale <= 0 THEN 1 ELSE 10 ^ scale
      g == Gcd(den, frac)
  IN [neg |-> FALSE, int |-> ParseInt(intDigits, 10),
      fnum |-> frac \div g, fden |-> den \div g]

\* the outcome of _parseNumber: the number, or the Error / TypeError thrown
ParseNumber(val) ==
  IF val = NULL
  THEN [ok |-> FALSE, kind |-> "TypeError"]           \* val.charAt of null
  ELSE
    LET negative == val[1] = "-"
        u == IF negative THEN Substring(val, 1) ELSE val
    IN IF NUMBER_DEC(u)
       THEN [ok |-> TRUE, num |-> IntNum(negative, ParseInt(u, 10))]
       ELSE IF NUMBER_HEX(u)
       THEN [ok |-> TRUE, num |-> IntNum(negative, ParseInt(Substring(u, 2), 16))]
       ELSE IF NUMBER_OCT(u)
       THEN [ok |-> TRUE, num |-> IntNum(negative, ParseInt(Substring(u, 1), 8))]
       ELSE IF NUMBER_FLT(u)
       THEN [ok |-> TRUE, num |-> [ParseFloat(u) EXCEPT !.neg = negative]]
       ELSE [ok |-> FALSE, kind |-> "Error"]

\* ProtoBuf.ID_MIN and ProtoBuf.ID_MAX, the bounds of the field numbers
ID_MIN == 1
ID_MAX == 536870911

RECURSIVE BitsOfInt(_)
BitsOfInt(n) == IF n = 0 THEN << >> ELSE <<n % 2>> \o BitsOfInt(n \div 2)

\* a small non-negative integer as a JavaScript number
NumOf(n) == IntNum(FALSE, BitsOfInt(n))

(***************************************************************************)
(* State                                                                   *)
(***************************************************************************)
VARIABLES
  src,      \* the source text: the tokens and string bodies it is written
            \* with and its length in tokens
  tn,       \* the Tokenizer: line, stack (the token peek() holds back),
            \* the string it is reading, stringEndsWith, the number n of
            \* tokens read from the text and the number of calls made of
            \* next() and peek()
  stack,    \* the call stack of the Parser's functions, outermost first
  token,    \* the token the latest call of next() or peek() returned (the
            \* local variable `token` of the running function)
  status,   \* "running", "returned" (parse returned a Schema), "threw"
  result,   \* the Schema parse returned
  err,      \* the error parse threw
  hist      \* history: the functions of the top-level statements parsed so
            \* far, in their order

vars == <<src, tn, stack, token, status, result, err, hist>>

(***************************************************************************)
(* Tokenizer.  The text is read left to right and never rewound, so the    *)
(* token each call returns is chosen when the call is made: any token of   *)
(* the text's alphabet, on the current line or a later one, or the end of  *)
(* the input.                                                              *)
(***************************************************************************)
LinesFrom(l) == {k \in 1..src.lines : l <= k /\ k <= l + 1}

\* next() with nothing held back: the reads of the text itself
FreshReads(t) ==
  IF t.atEnd
  THEN {[tok |-> NULL, tn |-> t]}
  ELSE
    {[tok |-> NULL, tn |-> [t EXCEPT !.atEnd = TRUE, !.line = l]] :
       l \in LinesFrom(t.line)}
    \cup
    IF t.n >= src.len THEN {}
    ELSE IF t.str = "body"
    THEN {[tok |-> b,
           tn |-> [t EXCEPT !.n = @ + 1, !.line = l, !.str = "close"]] :
            b \in src.bodies, l \in LinesFrom(t.line)}
    ELSE IF t.str = "close"
    THEN {[tok |-> t.stringEndsWith,
           tn |-> [t EXCEPT !.n = @ + 1, !.str = "none"]]}
    ELSE
      {[tok |-> k,
        tn |-> [t EXCEPT !.n = @ + 1, !.line = l,
                         !.str = IF k \in {STRINGOPEN, STRINGOPEN_SQ}
                                 THEN "body" ELSE "none",
                         !.stringEndsWith =
                            IF k \in {STRINGOPEN, STRINGOPEN_SQ} THEN k ELSE @]] :
         k \in src.toks, l \in LinesFrom(t.line)}

\* Tokenizer.prototype.next
TnNext(t) ==
  LET c == [t EXCEPT !.calls = @ + 1]
  IN IF c.stack # << >>
     THEN {[tok |-> Head(c.stack), tn |-> [c EXCEPT !.stack = Tail(@)]]}
     ELSE FreshReads(c)

\* Tokenizer.prototype.peek
TnPeek(t) ==
  LET c == [t EXCEPT !.calls = @ + 1]
  IN IF c.stack # << >>
     THEN {[tok |-> Head(c.stack), tn |-> c]}
     ELSE {[tok |-> r.tok,
            tn |-> IF r.tok = NULL THEN r.tn
                   ELSE [r.tn EXCEPT !.stack = <<r.tok>>]] :
             r \in FreshReads(c)}

\* token = this.tn.peek(); if (token === Lang.END) this.tn.next();
PeekSkipEnd(t) ==
  UNION {IF r.tok = END THEN {[tok |-> r.tok, tn |-> n.tn] : n \in TnNext(r.tn)}
         ELSE {r} :
           r \in TnPeek(t)}

(***************************************************************************)
(* Values and outcomes                                                     *)
(***************************************************************************)
\* An option value with its JavaScript type (a boolean under a field of its
\* own: TLC compares no boolean with a value of another kind)
JSString(v) == [t |-> "string", v |-> v]
JSNumber(v) == [t |-> "number", v |-> v]
JSBoolean(v) == [t |-> "boolean", b |-> v]
JSNull == [t |-> "null"]

\* value = token, for a token that may be null
TokenValue(tok) == IF tok = NULL THEN JSNull ELSE JSString(tok)

\* an object used as a dictionary ({}): a function from keys to values
EmptyMap == [k \in {} |-> JSNull]

\* map[key] = value
MapPut(map, key, value) ==
  [k \in (DOMAIN map) \cup {key} |-> IF k = key THEN value ELSE map[k]]

\* unshift in place of push
PushFront(list, x) == <<x>> \o list

\* Array.prototype.push
Push(list, x) == Append(list, x)

\* The outcome of a step: the parser goes on with a new stack, throws, or
\* parse returns.
Go(s) == [t |-> "go", stack |-> s]
Ret(v) == [t |-> "return", result |-> v]

\* throw Error(msg + " at line " + this.tn.line + ...)
Throw(msg, t) ==
  [t |-> "throw", err |-> [kind |-> "Error", msg |-> msg, line |-> t.line]]

\* An error whose message holds no line number (line 0): a TypeError raised
\* by the engine, or an Error thrown with a fixed text.
NoLine == 0
ThrowBare(kind, msg) ==
  [t |-> "throw", err |-> [kind |-> kind, msg |-> msg, line |-> NoLine]]

At(s, pc) == [s EXCEPT ![Len(s)].pc = pc]
Pop(s) == SubSeq(s, 1, Len(s) - 1)

\* a call: the caller goes on at pcAfter when the callee has returned
Call(s, pcAfter, frame) == Go(Append(At(s, pcAfter), frame))

(***************************************************************************)
(* Frames: the locals of one activation.  `obj` is the object the function *)
(* builds (topLevel, msg, fld, enm, val, svc, method, ext); `par` and      *)
(* `fref` are references (stack indices of the frames that own them) to    *)
(* the parent object and to the field whose options are being parsed.      *)
(***************************************************************************)
TopLevel ==
  [name |-> <<"[","R","O","O","T","]">>, package |-> NULL, messages |-> << >>,
   enums |-> << >>, imports |-> << >>, options |-> EmptyMap, services |-> << >>]

ParseFrame == [fn |-> "parse", pc |-> "loop", obj |-> TopLevel, header |-> TRUE]
PackageFrame == [fn |-> "_parsePackage", pc |-> "name", pkg |-> NULL]
ImportFrame == [fn |-> "_parseImport", pc |-> "start", imported |-> NULL]
OptionFrame(par) ==
  [fn |-> "_parseOption", pc |-> "start", par |-> par, custom |-> FALSE,
   name |-> NULL, value |-> JSNull]
IgnoredFrame == [fn |-> "_parseIgnoredStatement", pc |-> "loop"]
ServiceFrame(par) == [fn |-> "_parseService", pc |-> "name", par |-> par, obj |-> NULL]
RPCFrame(par, type) ==
  [fn |-> "_parseServiceRPC", pc |-> "name", par |-> par, type |-> type,
   name |-> NULL,
   obj |-> [request |-> NULL, response |-> NULL, options |-> EmptyMap]]
MessageFrame(par, fref, tok) ==
  [fn |-> "_parseMessage", pc |-> "name", par |-> par, fref |-> fref,
   isGroup |-> (tok = kw_group), obj |-> NULL]
MessageFieldFrame(par, tok) ==
  [fn |-> "_parseMessageField", pc |-> "type", par |-> par, grp |-> NULL,
   obj |-> [rule |-> tok, options |-> EmptyMap]]
FieldOptionsFrame(fref) ==
  [fn |-> "_parseFieldOptions", pc |-> "loop", fref |-> fref, first |-> TRUE]
EnumFrame(par) == [fn |-> "_parseEnum", pc |-> "name", par |-> par, obj |-> NULL]
EnumValueFrame(par, tok) ==
  [fn |-> "_parseEnumValue", pc |-> "equal", par |-> par,
   obj |-> [name |-> tok], opt |-> NULL]
ExtensionsFrame == [fn |-> "_parseExtensions", pc |-> "low", range |-> << >>]
ExtendFrame(par) == [fn |-> "_parseExtend", pc |-> "ref", par |-> par, obj |-> NULL]

\* delete topLevel["name"]; return topLevel;
Schema(topLevel) ==
  [package |-> topLevel.package, messages |-> topLevel.messages,
   enums |-> topLevel.enums, imports |-> topLevel.imports,
   options |-> topLevel.options, services |-> topLevel.services]

(***************************************************************************)
(* Parser.  XStep(s, tok, t) is what function X does with the token tok    *)
(* that the tokenizer call of the step returned (t: the tokenizer after    *)
(* the call), X being the function of the top frame of s.                  *)
(***************************************************************************)
\* the test without its second operand
PackageIllegalHeaderOnly(header, pkg) == ~header

\* parse: if (!header || topLevel["package"] !== null) throw ...
PackageIllegal(header, pkg) == ~header \/ pkg # NULL

\* parse without its two assignments header = false
HeaderAfterNeverCloses(header, fn) == header

\* parse: header after the top-level statement parsed by fn
HeaderAfter(header, fn) ==
  IF fn \in {"_parseMessage", "_parseEnum"} THEN FALSE ELSE header

\* _parseMessageField: /^[A-Z]/.test(grp["name"])
GroupNameOk(name) == name[1] \in Upper

\* the field named as the group is
GroupFieldNameVerbatim(name) == name

\* _parseMessageField: fld["name"] = grp["name"].toLowerCase()
GroupFieldName(name) == ToLowerCase(name)

\* The caller (the top frame of s) goes on after the call of fn returned val
Resume(s, fn, val) ==
  LET k == Len(s)
      c == s[k]
  IN CASE c.fn = "parse" /\ fn = "_parsePackage" ->
            Go([s EXCEPT ![k].obj.package = val])
       [] c.fn = "parse" /\ fn = "_parseImport" ->
            Go([s EXCEPT ![k].obj.imports = Push(@, val)])
       [] c.fn = "parse" /\ fn \notin {"_parsePackage", "_parseImport"} ->
            Go([s EXCEPT ![k].header = HeaderAfter(@, fn)])
       [] c.fn = "_parseMessage" /\ fn = "_parseExtensions" ->
            Go([s EXCEPT ![k].obj.extensions = val])
       [] c.fn = "_parseMessageField" /\ fn = "_parseMessage" ->
            IF ~GroupNameOk(val.name)
            THEN ThrowBare("Error", "Group names must start with a capital letter")
            ELSE Go([s EXCEPT ![k].grp = val,
                              ![k].obj = [rule |-> c.obj.rule,
                                          options |-> c.obj.options,
                                          id |-> c.obj.id,
                                          type |-> val.name,
                                          name |-> GroupFieldName(val.name)]])
       [] c.fn = "_parseFieldOptions" /\ fn = "_parseFieldOption" ->
            Go([s EXCEPT ![k].first = FALSE])
       [] OTHER -> Go(s)

\* the function of the top frame of s returns val
Return(s, val) == Resume(Pop(s), s[Len(s)].fn, val)

\* Parser.prototype.parse
ParseStep(s, tok, t) ==
  LET f == s[Len(s)]
      me == Len(s)
  IN CASE tok = NULL -> Ret(Schema(f.obj))
       [] tok = kw_package ->
            IF PackageIllegal(f.header, f.obj.package)
            THEN Throw("Illegal package", t)
            ELSE Call(s, "loop", PackageFrame)
       [] tok = kw_import ->
            IF ~f.header THEN Throw("Illegal import", t)
            ELSE Call(s, "loop", ImportFrame)
       [] tok = kw_message -> Call(s, "loop", MessageFrame(me, 0, tok))
       [] tok = kw_enum -> Call(s, "loop", EnumFrame(me))
       [] tok = kw_option ->
            IF ~f.header THEN Throw("Illegal option", t)
            ELSE Call(s, "loop", OptionFrame(me))
       [] tok = kw_service -> Call(s, "loop", ServiceFrame(me))
       [] tok = kw_extend -> Call(s, "loop", ExtendFrame(me))
       [] tok = kw_syntax -> Call(s, "loop", IgnoredFrame)
       [] OTHER -> Throw("Illegal token", t)

\* Parser.prototype._parsePackage
PackageStep(s, tok, t) ==
  LET f == s[Len(s)]
  IN CASE f.pc = "name" ->
            IF ~TYPEREF(StrOf(tok)) THEN Throw("Illegal package: token", t)
            ELSE Go([At(s, "end") EXCEPT ![Len(s)].pkg = tok])
       [] f.pc = "end" ->
            IF tok # END THEN Throw("Illegal end of package", t)
            ELSE Return(s, f.pkg)

\* Parser.prototype._parseImport
ImportStep(s, tok, t) ==
  LET f == s[Len(s)]
      open == IF tok \notin {STRINGOPEN, STRINGOPEN_SQ}
              THEN Throw("Illegal import: string expected", t)
              ELSE Go(At(s, "body"))
  IN CASE f.pc = "start" ->
            IF tok = kw_public THEN Go(At(s, "public")) ELSE open
       [] f.pc = "public" -> open
       [] f.pc = "body" -> Go([At(s, "stringEnd") EXCEPT ![Len(s)].imported = tok])
       [] f.pc = "stringEnd" ->
            IF tok # t.stringEndsWith
            THEN Throw("Illegal import: string end expected", t)
            ELSE Go(At(s, "end"))
       [] f.pc = "end" ->
            IF tok # END THEN Throw("Illegal import: END expected", t)
            ELSE Return(s, f.imported)

\* /google\.protobuf\./.test(token)
GoogleProtobuf(str) ==
  Contains(str, <<"g","o","o","g","l","e",".","p","r","o","t","o","b","u","f",".">>)

\* _parseOption: the value of a token that opens no string
OptionValue(tok) ==
  IF NUMBER(StrOf(tok)) THEN JSNumber(ParseNumber(tok).num)
  ELSE IF BOOL(StrOf(tok)) THEN JSBoolean(tok = kw_true)
  ELSE TokenValue(tok)

\* Parser.prototype._parseOption
OptionStep(s, tok, t) ==
  LET k == Len(s)
      f == s[k]
      name == IF ~TYPEREF(StrOf(tok)) /\ ~GoogleProtobuf(StrOf(tok))
              THEN Throw("Illegal option", t)
              ELSE Go([At(s, "afterName") EXCEPT ![k].name = tok])
      equal == IF tok # EQUAL THEN Throw("Illegal option operator", t)
               ELSE Go(At(s, "value"))
  IN CASE f.pc = "start" ->
            IF tok = COPTOPEN THEN Go([At(s, "customName") EXCEPT ![k].custom = TRUE])
            ELSE name
       [] f.pc = "customName" -> name
       [] f.pc = "afterName" ->
            IF f.custom
            THEN IF tok # COPTCLOSE THEN Throw("Illegal option: ) expected", t)
                 ELSE Go([At(s, "afterClose") EXCEPT
                            ![k].name = <<"(">> \o StrOf(f.name) \o <<")">>])
            ELSE equal
       [] f.pc = "afterClose" ->
            IF FQTYPEREF(StrOf(tok))
            THEN Go([At(s, "equal") EXCEPT ![k].name = f.name \o tok])
            ELSE equal
       [] f.pc = "equal" -> equal
       [] f.pc = "value" ->
            IF tok \in {STRINGOPEN, STRINGOPEN_SQ} THEN Go(At(s, "stringBody"))
            ELSE IF NUMBER(StrOf(tok)) \/ BOOL(StrOf(tok)) \/ TYPEREF(StrOf(tok))
            THEN Go([At(s, "end") EXCEPT ![k].value = OptionValue(tok)])
            ELSE Throw("Illegal option value", t)
       [] f.pc = "stringBody" ->
            Go([At(s, "stringEnd") EXCEPT ![k].value = TokenValue(tok)])
       [] f.pc = "stringEnd" ->
            IF tok # t.stringEndsWith THEN Throw("Illegal end of option value", t)
            ELSE Go(At(s, "end"))
       [] f.pc = "end" ->
            IF tok # END THEN Throw("Illegal end of option", t)
            ELSE Return([s EXCEPT ![f.par].obj.options = MapPut(@, f.name, f.value)],
                        NULL)

\* _parseIgnoredStatement without its test of the end of the input
IgnoredStatementStepNoEof(s, tok, t) ==
  IF tok = END THEN Return(s, NULL) ELSE Go(s)

\* Parser.prototype._parseIgnoredStatement
IgnoredStatementStep(s, tok, t) ==
  IF tok = NULL THEN Throw("Unexpected EOF", t)
  ELSE IF tok = END THEN Return(s, NULL)
  ELSE Go(s)

\* Parser.prototype._parseService
ServiceStep(s, tok, t) ==
  LET k == Len(s)
      f == s[k]
  IN CASE f.pc = "name" ->
            IF ~NAME(StrOf(tok)) THEN Throw("Illegal service name", t)
            ELSE Go([At(s, "open") EXCEPT
                       ![k].obj = [name |-> tok, rpc |-> EmptyMap, options |-> EmptyMap]])
       [] f.pc = "open" ->
            IF tok # OPEN THEN Throw("Illegal OPEN after service", t)
            ELSE Go(At(s, "body"))
       [] f.pc = "body" ->
            IF tok = kw_option THEN Call(s, "body", OptionFrame(k))
            ELSE IF tok = kw_rpc THEN Call(s, "body", RPCFrame(k, tok))
            ELSE IF tok # CLOSE THEN Throw("Illegal type for service", t)
            ELSE Return([s EXCEPT ![f.par].obj.services = Push(@, f.obj)], NULL)

\* Parser.prototype._parseServiceRPC
ServiceRPCStep(s, tok, t) ==
  LET k == Len(s)
      f == s[k]
      \* svc[type][name] = method (svc["rpc"] exists from the start)
      done == Return([s EXCEPT ![f.par].obj.rpc = MapPut(@, f.name, f.obj)], NULL)
  IN CASE f.pc = "name" ->
            IF ~NAME(StrOf(tok)) THEN Throw("Illegal RPC method name", t)
            ELSE Go([At(s, "requestOpen") EXCEPT ![k].name = tok])
       [] f.pc = "requestOpen" ->
            IF tok # COPTOPEN THEN Throw("Illegal start of request type", t)
            ELSE Go(At(s, "request"))
       [] f.pc = "request" ->
            IF ~TYPEREF(StrOf(tok)) THEN Throw("Illegal request type", t)
            ELSE Go([At(s, "requestClose") EXCEPT ![k].obj.request = tok])
       [] f.pc = "requestClose" ->
            IF tok # COPTCLOSE THEN Throw("Illegal end of request type", t)
            ELSE Go(At(s, "returns"))
       [] f.pc = "returns" ->
            IF tok = NULL
            THEN ThrowBare("TypeError", "Cannot read property 'toLowerCase' of null")
            ELSE IF ToLowerCase(tok) # kw_returns
            THEN Throw("Illegal request/response delimiter", t)
            ELSE Go(At(s, "responseOpen"))
       [] f.pc = "responseOpen" ->
            IF tok # COPTOPEN THEN Throw("Illegal start of response type", t)
            ELSE Go(At(s, "response"))
       [] f.pc = "response" ->
            Go([At(s, "responseClose") EXCEPT ![k].obj.response = tok])
       [] f.pc = "responseClose" ->
            IF tok # COPTCLOSE THEN Throw("Illegal end of response type", t)
            ELSE Go(At(s, "delimiter"))
       [] f.pc = "delimiter" ->
            IF tok = OPEN THEN Go(At(s, "options"))
            ELSE IF tok # END THEN Throw("Illegal method delimiter", t)
            ELSE done
       [] f.pc = "options" ->
            IF tok = kw_option THEN Call(s, "options", OptionFrame(k))
            ELSE IF tok # CLOSE THEN Throw("Illegal start of option", t)
            ELSE Go(At(s, "close"))
       [] f.pc = "close" -> done        \* after peek() and the optional next()

\* a message object; isGroup FALSE and extensions << >> stand for the
\* properties a plain message does not have
NewMessage(name, isGroup) ==
  [name |-> name, isGroup |-> isGroup, fields |-> << >>, enums |-> << >>,
   messages |-> << >>, options |-> EmptyMap, extensions |-> << >>]

\* Parser.prototype._parseMessage
MessageStep(s, tok, t) ==
  LET k == Len(s)
      f == s[k]
      open == IF tok # OPEN THEN Throw("Illegal OPEN after message", t)
              ELSE Go(At(s, "body"))
  IN CASE f.pc = "name" ->
            IF ~NAME(StrOf(tok)) THEN Throw("Illegal message name", t)
            ELSE IF f.isGroup
            THEN Go([At(s, "groupEqual") EXCEPT ![k].obj = [name |-> tok]])
            ELSE Go([At(s, "open") EXCEPT ![k].obj = NewMessage(tok, FALSE)])
       [] f.pc = "groupEqual" ->
            IF tok # EQUAL THEN Throw("Illegal id assignment after group", t)
            ELSE Go(At(s, "groupId"))
       [] f.pc = "groupId" ->
            LET r == ParseId(tok, FALSE)
                fld == s[f.fref].obj
            IN IF ~r.ok THEN Throw("Illegal field id value for group", t)
               ELSE Go([At(s, "open") EXCEPT
                          ![f.fref].obj = [rule |-> fld.rule, options |-> fld.options,
                                           id |-> r.id],
                          ![k].obj = NewMessage(f.obj.name, TRUE)])
       [] f.pc = "open" ->
            IF tok = OPTOPEN /\ f.fref # 0
            THEN Call(s, "open2", FieldOptionsFrame(f.fref))
            ELSE open
       [] f.pc = "open2" -> open
       [] f.pc = "body" ->
            IF tok = CLOSE THEN Go(At(s, "close"))
            ELSE IF RULE(StrOf(tok)) THEN Call(s, "body", MessageFieldFrame(k, tok))
            ELSE IF tok = kw_enum THEN Call(s, "body", EnumFrame(k))
            ELSE IF tok = kw_message THEN Call(s, "body", MessageFrame(k, 0, tok))
            ELSE IF tok = kw_option THEN Call(s, "body", OptionFrame(k))
            ELSE IF tok = kw_extensions THEN Call(s, "body", ExtensionsFrame)
            ELSE IF tok = kw_extend THEN Call(s, "body", ExtendFrame(k))
            ELSE Throw("Illegal token in message", t)
       [] f.pc = "close" ->             \* after peek() and the optional next()
            IF "messages" \notin DOMAIN s[f.par].obj
            THEN ThrowBare("TypeError", "Cannot read property 'push' of undefined")
            ELSE Return([s EXCEPT ![f.par].obj.messages = Push(@, f.obj)], f.obj)

\* Parser.prototype._parseMessageField
MessageFieldStep(s, tok, t) ==
  LET k == Len(s)
      f == s[k]
      o == f.obj
      end == IF tok # END THEN Throw("Illegal field delimiter", t)
             ELSE Return([s EXCEPT ![f.par].obj.fields = Push(@, o)], NULL)
  IN CASE f.pc = "type" ->
            IF tok = kw_group THEN Call(s, "groupPeek", MessageFrame(f.par, k, tok))
            ELSE IF ~TYPE(StrOf(tok)) /\ ~TYPEREF(StrOf(tok))
            THEN Throw("Illegal field type", t)
            ELSE Go([At(s, "name") EXCEPT
                       ![k].obj = [rule |-> o.rule, options |-> o.options,
                                   type |-> tok]])
       [] f.pc = "name" ->
            IF ~NAME(StrOf(tok)) THEN Throw("Illegal field name", t)
            ELSE Go([At(s, "equal") EXCEPT
                       ![k].obj = [rule |-> o.rule, options |-> o.options,
                                   type |-> o.type, name |-> tok]])
       [] f.pc = "equal" ->
            IF tok # EQUAL THEN Throw("Illegal field id assignment", t)
            ELSE Go(At(s, "id"))
       [] f.pc = "id" ->
            LET r == ParseId(tok, FALSE)
            IN IF ~r.ok THEN Throw("Illegal field id value", t)
               ELSE Go([At(s, "afterId") EXCEPT
                          ![k].obj = [rule |-> o.rule, options |-> o.options,
                                      type |-> o.type, name |-> o.name,
                                      id |-> r.id]])
       [] f.pc = "afterId" ->
            IF tok = OPTOPEN THEN Call(s, "end", FieldOptionsFrame(k)) ELSE end
       [] f.pc = "end" -> end
       [] f.pc = "groupPeek" ->         \* after peek() and the optional next()
            Return([s EXCEPT ![f.par].obj.fields = Push(@, o)], NULL)

\* _parseFieldOption up to its first call of next(): it is entered with a
\* token in hand
FieldOptionEntry(s, tok, t) ==
  LET frame(pc, custom, name) ==
        [fn |-> "_parseFieldOption", pc |-> pc, fref |-> s[Len(s)].fref,
         custom |-> custom, name |-> name, value |-> JSNull]
  IN IF tok = COPTOPEN THEN Call(s, "loop", frame("customName", TRUE, NULL))
     ELSE IF ~TYPEREF(StrOf(tok)) THEN Throw("Illegal field option", t)
     ELSE Call(s, "loop", frame("afterName", FALSE, tok))

\* Parser.prototype._parseFieldOptions
FieldOptionsStep(s, tok, t) ==
  LET f == s[Len(s)]
  IN CASE f.pc = "loop" ->
            IF tok = OPTCLOSE THEN Return(s, NULL)
            ELSE IF tok = OPTEND
            THEN IF f.first THEN Throw("Illegal start of message field options", t)
                 ELSE Go(At(s, "afterComma"))
            ELSE FieldOptionEntry(s, tok, t)
       [] f.pc = "afterComma" -> FieldOptionEntry(s, tok, t)

\* _parseFieldOption: the value of a token that opens no string
FieldOptionValue(tok) ==
  IF NUMBER(StrOf(tok)) THEN JSNumber(ParseNumber(tok).num)
  ELSE IF BOOL(StrOf(tok)) THEN JSBoolean(ToLowerCase(tok) = kw_true)
  ELSE TokenValue(tok)

\* Parser.prototype._parseFieldOption
FieldOptionStep(s, tok, t) ==
  LET k == Len(s)
      f == s[k]
      equal == IF tok # EQUAL THEN Throw("Illegal field option operation", t)
               ELSE Go(At(s, "value"))
      \* fld["options"][name] = value
      done(value) ==
        IF s[f.fref].fn = "_parseMessageField"
        THEN Return([s EXCEPT ![f.fref].obj.options = MapPut(@, f.name, value)], NULL)
        ELSE Return([s EXCEPT ![f.fref].opt.options = MapPut(@, f.name, value)], NULL)
  IN CASE f.pc = "customName" ->
            IF ~TYPEREF(StrOf(tok)) THEN Throw("Illegal field option", t)
            ELSE Go([At(s, "afterName") EXCEPT ![k].name = tok])
       [] f.pc = "afterName" ->
            IF f.custom
            THEN IF tok # COPTCLOSE
                 THEN Throw("Illegal custom field option name delimiter", t)
                 ELSE Go([At(s, "afterClose") EXCEPT
                            ![k].name = <<"(">> \o StrOf(f.name) \o <<")">>])
            ELSE equal
       [] f.pc = "afterClose" ->
            IF FQTYPEREF(StrOf(tok))
            THEN Go([At(s, "equal") EXCEPT ![k].name = f.name \o tok])
            ELSE equal
       [] f.pc = "equal" -> equal
       [] f.pc = "value" ->
            IF tok \in {STRINGOPEN, STRINGOPEN_SQ} THEN Go(At(s, "stringBody"))
            ELSE IF NUMBER(StrOf(tok)) \/ BOOL(StrOf(tok)) \/ TYPEREF(StrOf(tok))
            THEN done(FieldOptionValue(tok))
            ELSE Throw("Illegal field option value", t)
       [] f.pc = "stringBody" ->
            Go([At(s, "stringEnd") EXCEPT ![k].value = TokenValue(tok)])
       [] f.pc = "stringEnd" ->
            IF tok # t.stringEndsWith THEN Throw("Illegal end of field value", t)
            ELSE done(f.value)

\* Parser.prototype._parseEnum
EnumStep(s, tok, t) ==
  LET k == Len(s)
      f == s[k]
  IN CASE f.pc = "name" ->
            IF ~NAME(StrOf(tok)) THEN Throw("Illegal enum name", t)
            ELSE Go([At(s, "open") EXCEPT ![k].obj = [name |-> tok]])
       [] f.pc = "open" ->
            IF tok # OPEN THEN Throw("Illegal OPEN after enum", t)
            ELSE Go([At(s, "body") EXCEPT
                       ![k].obj = [name |-> f.obj.name, values |-> << >>,
                                   options |-> EmptyMap]])
       [] f.pc = "body" ->
            IF tok = CLOSE THEN Go(At(s, "close"))
            ELSE IF tok = kw_option THEN Call(s, "body", OptionFrame(k))
            ELSE IF ~NAME(StrOf(tok)) THEN Throw("Illegal enum value name", t)
            ELSE Call(s, "body", EnumValueFrame(k, tok))
       [] f.pc = "close" ->             \* after peek() and the optional next()
            Return([s EXCEPT ![f.par].obj.enums = Push(@, f.obj)], NULL)

\* Parser.prototype._parseEnumValue
EnumValueStep(s, tok, t) ==
  LET k == Len(s)
      f == s[k]
      end == IF tok # END THEN Throw("Illegal enum value delimiter", t)
             ELSE Return(s, NULL)
  IN CASE f.pc = "equal" ->
            IF tok # EQUAL THEN Throw("Illegal enum value operator", t)
            ELSE Go(At(s, "id"))
       [] f.pc = "id" ->
            LET r == ParseId(tok, TRUE)
                val == [name |-> f.obj.name, id |-> r.id]
            IN IF ~r.ok THEN Throw("Illegal enum value id", t)
               ELSE Go([At(s, "afterId") EXCEPT
                          ![k].obj = val,
                          ![f.par].obj.values = Push(@, val)])
       [] f.pc = "afterId" ->
            IF tok = OPTOPEN
            THEN Call([s EXCEPT ![k].opt = [options |-> EmptyMap]], "end",
                      FieldOptionsFrame(k))
            ELSE end
       [] f.pc = "end" -> end

\* _parseExtensions: one bound of the range
ExtensionBound(tok) ==
  IF tok = kw_min THEN [ok |-> TRUE, num |-> NumOf(ID_MIN)]
  ELSE IF tok = kw_max THEN [ok |-> TRUE, num |-> NumOf(ID_MAX)]
  ELSE ParseNumber(tok)

\* Parser.prototype._parseExtensions
ExtensionsStep(s, tok, t) ==
  LET k == Len(s)
      f == s[k]
      bound(pcNext) ==
        LET r == ExtensionBound(tok)
        IN IF r.ok
           THEN Go([At(s, pcNext) EXCEPT ![k].range = Push(@, r.num)])
           ELSE IF r.kind = "TypeError"
           THEN ThrowBare("TypeError", "Cannot read property 'charAt' of null")
           ELSE Throw("Illegal number", t)
  IN CASE f.pc = "low" -> bound("to")
       [] f.pc = "to" ->
            IF tok # kw_to THEN Throw("Illegal extensions delimiter", t)
            ELSE Go(At(s, "high"))
       [] f.pc = "high" -> bound("end")
       [] f.pc = "end" ->
            IF tok # END THEN Throw("Illegal extension delimiter", t)
            ELSE Return(s, f.range)

\* Parser.prototype._parseExtend
ExtendStep(s, tok, t) ==
  LET k == Len(s)
      f == s[k]
  IN CASE f.pc = "ref" ->
            IF ~TYPEREF(StrOf(tok)) THEN Throw("Illegal extended message name", t)
            ELSE Go([At(s, "open") EXCEPT ![k].obj = [ref |-> tok, fields |-> << >>]])
       [] f.pc = "open" ->
            IF tok # OPEN THEN Throw("Illegal OPEN in extend", t)
            ELSE Go(At(s, "body"))
       [] f.pc = "body" ->
            IF tok = CLOSE THEN Go(At(s, "close"))
            ELSE IF RULE(StrOf(tok)) THEN Call(s, "body", MessageFieldFrame(k, tok))
            ELSE Throw("Illegal token in extend", t)
       [] f.pc = "close" ->             \* after peek() and the optional next()
            Return([s EXCEPT ![f.par].obj.messages = Push(@, f.obj)], f.obj)

(***************************************************************************)
(* Source texts                                                            *)
(***************************************************************************)
n_M == <<"M">>
n_G == <<"G">>
lit_1 == <<"1">>
lit_m1 == <<"-","1">>

\* Id literals: an optional sign, the base prefix, a leading digit, a run
\* of one filling digit and a last digit.
MaxFill == 14

Literals(prefix, leads, fills, lasts) ==
  { sign \o prefix \o <<a>> \o [i \in 1..k |-> c] \o <<z>> :
      sign \in {<< >>, <<"-">>}, a \in leads, c \in fills,
      k \in 0..MaxFill, z \in lasts }

IdLiterals ==
  Literals(<< >>, {"1", "4", "9"}, {"0", "9"}, {"0", "1", "7"})
  \cup Literals(<<"0","x">>, {"1", "2", "7", "8", "F"}, {"0", "f"}, {"0", "1", "F"})
  \cup Literals(<<"0">>, {"1", "2", "3", "7"}, {"0", "7"}, {"0", "1", "7"})
  \cup { <<"0">>, <<"-","0">>, <<"0","8">>, <<"0","x">>, <<"1","a">>, <<"-">>,
         <<"2","1","4","7","4","8","3","6","4","7">>,
         <<"2","1","4","7","4","8","3","6","4","8">>,
         <<"-","2","1","4","7","4","8","3","6","4","8">>,
         <<"-","2","1","4","7","4","8","3","6","4","9">>,
         <<"4","2","9","4","9","6","7","2","9","5">>,
         <<"4","2","9","4","9","6","7","2","9","6">>,
         <<"4","2","9","4","9","6","7","2","9","7">>,
         <<"9","0","0","7","1","9","9","2","5","4","7","4","0","9","9","2">>,
         <<"9","0","0","7","1","9","9","2","5","4","7","4","0","9","9","3">>,
         <<"9","0","0","7","1","9","9","2","5","4","7","4","0","9","9","5">>,
         <<"-","9","0","0","7","1","9","9","2","5","4","7","4","0","9","9","3">> }

\* The length of a text in tokens and in lines, by what it is written with
MaxTokens == 6
MaxLine == 2

\* header statements and top-level declarations
SrcHeader ==
  [toks |-> {kw_package, kw_import, kw_option, kw_message, kw_enum, kw_service,
             kw_extend, kw_syntax, END, OPEN, CLOSE, EQUAL, STRINGOPEN, n_M},
   bodies |-> {<<"x",".","p","r","o","t","o">>}, lines |-> MaxLine,
   len |-> MaxTokens]

\* messages, fields and groups, on one line
SrcGroup ==
  [toks |-> {kw_message, OPEN, CLOSE, kw_optional, kw_group, n_G, EQUAL, lit_1, END},
   bodies |-> {}, lines |-> 1,
   len |-> MaxTokens + 11]

\* field, group and enum value ids: 1, -1, 2^31, 2^32 + 1 and no literal
SrcId ==
  [toks |-> {kw_message, kw_enum, OPEN, kw_optional, kw_group, EQUAL, END,
             lit_1, lit_m1,
             <<"0","x","8","0","0","0","0","0","0","0">>,
             <<"4","2","9","4","9","6","7","2","9","7">>,
             <<"0","8">>},
   bodies |-> {}, lines |-> MaxLine,
   len |-> MaxTokens + 2]

\* enums, enum values and their options
SrcEnum ==
  [toks |-> {kw_enum, OPEN, CLOSE, EQUAL, lit_1, lit_m1, OPTOPEN, OPTCLOSE,
             OPTEND, END},
   bodies |-> {}, lines |-> MaxLine,
   len |-> MaxTokens + 8]

\* services and RPC methods
SrcService ==
  [toks |-> {kw_service, OPEN, CLOSE, kw_rpc, COPTOPEN, COPTCLOSE, kw_returns,
             kw_option, EQUAL, END},
   bodies |-> {}, lines |-> MaxLine,
   len |-> MaxTokens + 8]

\* extension ranges
SrcExtensions ==
  [toks |-> {kw_message, OPEN, CLOSE, kw_extensions, kw_to, kw_min, kw_max,
             lit_1, lit_m1, <<"3",".","5">>, END},
   bodies |-> {}, lines |-> MaxLine,
   len |-> MaxTokens + 3]

\* extend blocks
SrcExtend ==
  [toks |-> {kw_extend, OPEN, CLOSE, kw_optional, kw_group, n_G, EQUAL, lit_1, END},
   bodies |-> {}, lines |-> MaxLine,
   len |-> MaxTokens + 5]

\* fields with their lists of options
SrcFieldOptions ==
  [toks |-> {kw_message, OPEN, kw_optional, EQUAL, lit_1, OPTOPEN, OPTCLOSE,
             OPTEND, END, <<"T","R","U","E">>},
   bodies |-> {}, lines |-> 1,
   len |-> MaxTokens + 7]

\* statement options with their values
SrcOption ==
  [toks |-> {kw_option, n_M, EQUAL, END, lit_1, kw_true, <<"T","R","U","E">>},
   bodies |-> {}, lines |-> 1,
   len |-> MaxTokens]

Sources ==
  {SrcHeader, SrcGroup, SrcId, SrcEnum, SrcService, SrcExtensions, SrcExtend,
   SrcFieldOptions, SrcOption}

(***************************************************************************)
(* Actions: one per function of the Parser                                 *)
(***************************************************************************)
\* new Tokenizer(proto)
NewTokenizer ==
  [line |-> 1, stack |-> << >>, atEnd |-> FALSE, str |-> "none",
   stringEndsWith |-> STRINGOPEN, n |-> 0, calls |-> 0]

\* a direct call of _parseId(val, neg) on a new Parser
IdFrame(val, neg) == [fn |-> "_parseId", val |-> val, neg |-> neg]

NoSource == [toks |-> {}, bodies |-> {}, lines |-> 1, len |-> 0]

\* new Parser(proto), and then parse() or, on an empty text, _parseId
Init ==
  /\ tn = NewTokenizer
  /\ token = NULL
  /\ status = "running"
  /\ result = NULL
  /\ err = [kind |-> "none", msg |-> "", line |-> NoLine]
  /\ hist = << >>
  /\ \/ /\ src \in Sources
        /\ stack = <<ParseFrame>>
     \/ /\ src = NoSource
        /\ \E val \in IdLiterals, neg \in BOOLEAN : stack = <<IdFrame(val, neg)>>

\* the tokenizer call a step starts with: peek() and the conditional next()
\* after the CLOSE of a block, next() everywhere else
Reads ==
  IF stack[Len(stack)].pc \in {"close", "groupPeek"}
  THEN PeekSkipEnd(tn) ELSE TnNext(tn)

\* the outcome o of the step that read r takes effect
Do(o, r) ==
  /\ tn' = r.tn
  /\ token' = r.tok
  /\ src' = src
  /\ \/ /\ o.t = "go"
        /\ stack' = o.stack
        /\ hist' = IF Len(stack) = 2 /\ Len(o.stack) = 1
                   THEN Append(hist, stack[2].fn) ELSE hist
        /\ UNCHANGED <<status, result, err>>
     \/ /\ o.t = "throw"
        /\ stack' = << >>
        /\ status' = "threw"
        /\ err' = o.err
        /\ UNCHANGED <<result, hist>>
     \/ /\ o.t = "return"
        /\ stack' = << >>
        /\ status' = "returned"
        /\ result' = o.result
        /\ UNCHANGED <<err, hist>>

Running(fn) == status = "running" /\ stack[Len(stack)].fn = fn

parse ==
  /\ Running("parse")
  /\ \E r \in Reads : Do(ParseStep(stack, r.tok, r.tn), r)

parsePackage ==
  /\ Running("_parsePackage")
  /\ \E r \in Reads : Do(PackageStep(stack, r.tok, r.tn), r)

parseImport ==
  /\ Running("_parseImport")
  /\ \E r \in Reads : Do(ImportStep(stack, r.tok, r.tn), r)

parseOption ==
  /\ Running("_parseOption")
  /\ \E r \in Reads : Do(OptionStep(stack, r.tok, r.tn), r)

parseIgnoredStatement ==
  /\ Running("_parseIgnoredStatement")
  /\ \E r \in Reads : Do(IgnoredStatementStep(stack, r.tok, r.tn), r)

parseService ==
  /\ Running("_parseService")
  /\ \E r \in Reads : Do(ServiceStep(stack, r.tok, r.tn), r)

parseServiceRPC ==
  /\ Running("_parseServiceRPC")
  /\ \E r \in Reads : Do(ServiceRPCStep(stack, r.tok, r.tn), r)

parseMessage ==
  /\ Running("_parseMessage")
  /\ \E r \in Reads : Do(MessageStep(stack, r.tok, r.tn), r)

parseMessageField ==
  /\ Running("_parseMessageField")
  /\ \E r \in Reads : Do(MessageFieldStep(stack, r.tok, r.tn), r)

parseFieldOptions ==
  /\ Running("_parseFieldOptions")
  /\ \E r \in Reads : Do(FieldOptionsStep(stack, r.tok, r.tn), r)

parseFieldOption ==
  /\ Running("_parseFieldOption")
  /\ \E r \in Reads : Do(FieldOptionStep(stack, r.tok, r.tn), r)

parseEnum ==
  /\ Running("_parseEnum")
  /\ \E r \in Reads : Do(EnumStep(stack, r.tok, r.tn), r)

parseEnumValue ==
  /\ Running("_parseEnumValue")
  /\ \E r \in Reads : Do(EnumValueStep(stack, r.tok, r.tn), r)

parseExtensions ==
  /\ Running("_parseExtensions")
  /\ \E r \in Reads : Do(ExtensionsStep(stack, r.tok, r.tn), r)

parseExtend ==
  /\ Running("_parseExtend")
  /\ \E r \in Reads : Do(ExtendStep(stack, r.tok, r.tn), r)

\* Parser.prototype._parseId called directly: val is the token
parseId ==
  /\ Running("_parseId")
  /\ LET f == stack[1]
         r == ParseId(f.val, f.neg)
         read == [tok |-> f.val, tn |-> tn]
     IN IF r.ok THEN Do(Ret(r.id), read)
        ELSE Do(Throw("Illegal ID", tn), read)

Next ==
  \/ parseId
  \/ parse
  \/ parsePackage
  \/ parseImport
  \/ parseOption
  \/ parseIgnoredStatement
  \/ parseService
  \/ parseServiceRPC
  \/ parseMessage
  \/ parseMessageField
  \/ parseFieldOptions
  \/ parseFieldOption
  \/ parseEnum
  \/ parseEnumValue
  \/ parseExtensions
  \/ parseExtend

Spec == Init /\ [][Next]_vars


(***************************************************************************)
(* Properties                                                              *)
(***************************************************************************)
Top == stack[Len(stack)]

\* parse is about to read the keyword of a top-level statement
AtTopLevel == status = "running" /\ Len(stack) = 1 /\ stack[1].fn = "parse"

\* a top-level statement parsed by one of fns has been completed
Declared(fns) == \E i \in DOMAIN hist : hist[i] \in fns

HeaderKeywords == {kw_package, kw_import, kw_option}
HeaderFns == {"_parsePackage", "_parseImport", "_parseOption"}

HeaderFn(kw) ==
  CASE kw = kw_package -> "_parsePackage"
    [] kw = kw_import -> "_parseImport"
    [] kw = kw_option -> "_parseOption"

IllegalMsg(kw) ==
  CASE kw = kw_package -> "Illegal package"
    [] kw = kw_import -> "Illegal import"
    [] kw = kw_option -> "Illegal option"

\* C1: once a top-level message or enum has been parsed, a top-level
\* package, import or option keyword makes parse throw "Illegal package /
\* import / option at line <the current line>" and nothing is returned;
\* before the first message or enum the statement is entered (a second
\* package apart: that one is refused for being the second).
HeaderClosesAfterMessageOrEnum ==
  [][ (AtTopLevel /\ token' \in HeaderKeywords) =>
        IF Declared({"_parseMessage", "_parseEnum"})
        THEN /\ status' = "threw"
             /\ err' = [kind |-> "Error", msg |-> IllegalMsg(token'),
                        line |-> tn'.line]
             /\ result' = NULL
        ELSE \/ /\ token' = kw_package
                /\ Declared({"_parsePackage"})
                /\ status' = "threw"
             \/ /\ status' = "running"
                /\ Len(stack') = 2
                /\ stack'[2].fn = HeaderFn(token') ]_vars

\* an import after a message was refused
ImportAfterMessageRefused ==
  /\ status = "threw"
  /\ err.msg = "Illegal import"
  /\ hist = <<"_parseMessage">>
  /\ token = kw_import

\* C2: no Schema is returned for a text in which a top-level service, extend
\* or syntax statement is followed at top level by a package, import or
\* option statement.
HeaderClosesAfterServiceExtendSyntax ==
  status = "returned" =>
    ~ \E i, j \in DOMAIN hist :
        /\ i < j
        /\ hist[i] \in {"_parseService", "_parseExtend", "_parseIgnoredStatement"}
        /\ hist[j] \in HeaderFns

\* The literal val (an optional '-', then a decimal, hex or octal literal)
\* as a mathematical integer, reduced modulo 2^32 into -2^31 .. 2^31 - 1: the
\* two low base-65536 digits of the magnitude, read as a signed number.
LiteralWrapped(val) ==
  LET negative == val[1] = "-"
      u == IF negative THEN Substring(val, 1) ELSE val
      x == IF NUMBER_DEC(u) THEN ParseDigits(u, 10, << >>)
           ELSE IF NUMBER_HEX(u) THEN ParseDigits(Substring(u, 2), 16, << >>)
           ELSE ParseDigits(Substring(u, 1), 8, << >>)
      lo == IF Len(x) >= 1 THEN x[1] ELSE 0
      hi == IF Len(x) >= 2 THEN x[2] ELSE 0
      sm == IF hi >= 32768 THEN (hi - LimbBase) * LimbBase + lo
            ELSE hi * LimbBase + lo
  IN IF ~negative THEN sm
     ELSE IF sm = (0 - 2147483647) - 1 THEN sm
     ELSE 0 - sm

\* C3: the id _parseId returns for a literal of value v is v wrapped into
\* the signed 32-bit range.
IdIsLiteralWrapped ==
  (src = NoSource /\ status = "returned") => result = LiteralWrapped(token)

\* a bound that is an integer in 0 .. 2^31 - 1
IsFieldId(num) == ~num.neg /\ num.fnum = 0 /\ BitLen(num.int) <= 31

\* C4: every bound stored in the extension range of a message of a returned
\* Schema is an integer in 0 .. 2^31 - 1.
ExtensionBoundsAreIds ==
  status = "returned" /\ src # NoSource =>
    \A i \in DOMAIN result.messages :
      "extensions" \in DOMAIN result.messages[i] =>
        \A k \in DOMAIN result.messages[i].extensions :
          IsFieldId(result.messages[i].extensions[k])

\* C5: a group of a message M whose name starts with a capital letter adds
\* to M.messages one message of that name with isGroup true (the object the
\* body's declarations were added to), and to M.fields one field with the
\* rule and the id of the group, the group's name as its type and the
\* lower-cased name as its name; a group of another name makes parse throw.
GroupIsDesugared ==
  [][ /\ ( /\ Running("_parseMessage")
           /\ Top.isGroup
           /\ Top.pc = "close"
           /\ "messages" \in DOMAIN stack[Top.par].obj ) =>
         LET M == stack[Top.par].obj
             fld == stack[Top.fref].obj
         IN IF Top.obj.name[1] \in Upper
            THEN /\ status' = "running"
                 /\ Top.obj.isGroup
                 /\ stack'[Top.par].obj.messages = Append(M.messages, Top.obj)
                 /\ stack'[Top.par].obj.fields = M.fields
                 /\ stack'[Top.fref].grp = Top.obj
                 /\ stack'[Top.fref].obj =
                      [rule |-> fld.rule, options |-> fld.options, id |-> fld.id,
                       type |-> Top.obj.name,
                       name |-> ToLowerCase(Top.obj.name)]
            ELSE status' = "threw"
      /\ ( /\ Running("_parseMessageField")
           /\ Top.pc = "groupPeek" ) =>
         LET M == stack[Top.par].obj
         IN /\ status' = "running"
            /\ Len(stack') = Len(stack) - 1
            /\ stack'[Top.par].obj.fields = Append(M.fields, Top.obj)
            /\ stack'[Top.par].obj.messages = M.messages
            /\ M.messages[Len(M.messages)] = Top.grp ]_vars

\* message G { optional group G = 1 { optional G G = 1 ; } } was parsed
GroupWithFieldParsed ==
  /\ src = SrcGroup
  /\ status = "returned"
  /\ Len(result.messages) = 1
  /\ LET M == result.messages[1]
     IN /\ M.fields = << [rule |-> kw_optional, options |-> EmptyMap, id |-> 1,
                          type |-> n_G, name |-> <<"g">>] >>
        /\ Len(M.messages) = 1
        /\ M.messages[1].isGroup
        /\ M.messages[1].name = n_G
        /\ M.messages[1].fields =
             << [rule |-> kw_optional, options |-> EmptyMap, id |-> 1,
                 type |-> n_G, name |-> n_G] >>

\* C6: every error parse throws carries the line at which it was detected.
ErrorsCarryLine ==
  (status = "threw" /\ err.kind = "Error") => (err.line = tn.line /\ err.line >= 1)

\* C7: when the text ends where a token is still required, parse fails with
\* an Error of the parser that cites the current line.
EndOfInputIsSyntaxError ==
  (status # "running" /\ src # NoSource /\ token = NULL) =>
    \/ status = "returned"
    \/ /\ err.kind = "Error"
       /\ err.line = tn.line

\* C8: parse comes to an end on every text: it calls next() or peek() in
\* every step, and when it has read n tokens of the text it has made
\* 2 * n + 1 calls at most: the calls that read no token (a peek() at a
\* token held back, a call at the end of the input) are outnumbered by those
\* that do, so that no loop goes on without consuming the text.
Terminates == tn.calls <= 2 * tn.n + 1 /\ tn.n <= src.len

\* the end of the text ended the loop of an ignored statement
IgnoredStatementEndedByEof ==
  /\ status = "threw"
  /\ err.msg = "Unexpected EOF"
  /\ token = NULL

ListNames == {"imports", "messages", "enums", "services", "fields", "values"}

\* the lists of children of an object under construction
ListsOf(o) == {k \in ListNames : k \in DOMAIN o}

\* the frames of stack s that build an object
Builders(s) == {i \in DOMAIN s : "obj" \in DOMAIN s[i]}

\* list b is list a, or a with one entry added at its end
Extends(a, b) ==
  \/ b = a
  \/ Len(b) = Len(a) + 1 /\ SubSeq(b, 1, Len(a)) = a

\* the number of entries in the lists of the objects under construction
RECURSIVE SumLen(_, _)
SumLen(o, ks) ==
  IF ks = {} THEN 0
  ELSE LET k == CHOOSE x \in ks : TRUE IN Len(o[k]) + SumLen(o, ks \ {k})

RECURSIVE Entries(_, _)
Entries(s, is) ==
  IF is = {} THEN 0
  ELSE LET i == CHOOSE x \in is : TRUE
       IN SumLen(s[i].obj, ListsOf(s[i].obj)) + Entries(s, is \ {i})

\* C9: the lists of children keep the order of the declarations: a step of
\* the parser leaves every list of every object under construction as it is
\* or adds one entry at its end, adds one entry at most in all, and the
\* Schema returned has the lists of topLevel as they are.
ListsAreAppendOnly ==
  [][ /\ status' = "running" =>
           /\ \A i \in Builders(stack) \cap Builders(stack') :
                \A k \in ListsOf(stack[i].obj) :
                  /\ k \in ListsOf(stack'[i].obj)
                  /\ Extends(stack[i].obj[k], stack'[i].obj[k])
           /\ Entries(stack', Builders(stack) \cap Builders(stack'))
                <= Entries(stack, Builders(stack) \cap Builders(stack')) + 1
      /\ (status' = "returned" /\ src # NoSource) =>
           \A k \in ListsOf(stack[1].obj) : result'[k] = stack[1].obj[k] ]_vars

\* enum enum { enum = 1 ; enum = -1 ; } was parsed
TwoEnumValuesInOrder ==
  /\ src = SrcEnum
  /\ status = "returned"
  /\ Len(result.enums) = 1
  /\ result.enums[1].values =
       << [name |-> kw_enum, id |-> 1], [name |-> kw_enum, id |-> -1] >>

\* C10: a package keyword after a package statement that was parsed makes
\* parse throw; a package statement that is parsed sets the package, null
\* until then, to its type reference, and the Schema returned has the
\* package of topLevel, null if and only if no package statement was parsed.
PackageSetAtMostOnce ==
  [][ /\ ( /\ AtTopLevel
           /\ token' = kw_package
           /\ Declared({"_parsePackage"}) ) =>
         /\ status' = "threw"
         /\ err'.msg = "Illegal package"
      /\ ( /\ Running("_parsePackage")
           /\ status' = "running"
           /\ Len(stack') = 1 ) =>
         /\ stack[1].obj.package = NULL
         /\ TYPEREF(Top.pkg)
         /\ stack'[1].obj.package = Top.pkg
      /\ (AtTopLevel /\ status' = "running") =>
         stack'[1].obj.package = stack[1].obj.package
      /\ (status' = "returned" /\ src # NoSource) =>
         /\ result'.package = stack[1].obj.package
         /\ (result'.package = NULL) <=> ~Declared({"_parsePackage"}) ]_vars

\* a second package statement was refused
SecondPackageRefused ==
  /\ status = "threw"
  /\ err.msg = "Illegal package"
  /\ hist = <<"_parsePackage">>

\* C11: a list of field options holds one option at least, a ',' stands
\* between every two options and nowhere else: OPTCLOSE or ',' where the
\* first option is due, anything but ',' or OPTCLOSE after an option, and
\* OPTCLOSE or ',' after a ',' each make parse throw.
FieldOptionsListWellFormed ==
  [][ ( /\ Running("_parseFieldOptions")
         /\ stack[Top.fref].fn = "_parseMessageField" ) =>
        IF Top.pc = "loop" /\ ~Top.first
        THEN token' \notin {OPTCLOSE, OPTEND} => status' = "threw"
        ELSE token' \in {OPTCLOSE, OPTEND} => status' = "threw" ]_vars

\* C12: the request and the response of every RPC method of a returned
\* Schema are type references.
RpcTypesAreTypeRefs ==
  (status = "returned" /\ src # NoSource) =>
    \A i \in DOMAIN result.services :
      \A m \in DOMAIN result.services[i].rpc :
        /\ TYPEREF(StrOf(result.services[i].rpc[m].request))
        /\ TYPEREF(StrOf(result.services[i].rpc[m].response))

\* C13: in the body of an extend block a field is declared as in a message:
\* the field that ends is added to the fields of the block as it was read, a
\* group with a capital name is accepted as it is in a message, and the
\* block that ends is added to the messages of its parent.
ExtendFieldsAsMessageFields ==
  [][ /\ ( /\ Running("_parseMessageField")
           /\ stack[Top.par].fn = "_parseExtend"
           /\ \/ Top.pc \in {"afterId", "end"} /\ token' = END
              \/ Top.pc = "groupPeek" ) =>
         /\ status' = "running"
         /\ stack'[Top.par].obj.fields =
              Append(stack[Top.par].obj.fields, Top.obj)
      /\ ( /\ Running("_parseMessage")
           /\ Top.isGroup
           /\ Top.pc = "close"
           /\ stack[Top.par].fn = "_parseExtend"
           /\ GroupNameOk(Top.obj.name) ) =>
         status' = "running"
      /\ ( /\ Running("_parseExtend")
           /\ Top.pc = "close" ) =>
         /\ status' = "running"
         /\ stack'[Top.par].obj.messages =
              Append(stack[Top.par].obj.messages, Top.obj) ]_vars

\* C14: a statement option and a field option read a value alike: the value
\* that _parseOption has taken from a token that opens no string (a number, a
\* boolean in any letter case, a type reference) is the value that
\* _parseFieldOption stores for the same token, so that TRUE stores true in
\* both.
OptionValuesAgree ==
  ( /\ Running("_parseOption")
    /\ Top.pc = "end"
    /\ token \notin {STRINGOPEN, STRINGOPEN_SQ} ) =>
    Top.value = FieldOptionValue(token)

=============================================================================
